---- MODULE Spec2Model ----
(***************************************************************************)
(* State-machine model of the listing scraper: URL discovery               *)
(* (Scraper.scrape_menu_pages), detail scraping over a single browser      *)
(* session (Scraper.process_listings_from_json and the calls it makes) and *)
(* the incremental CSV sink, as driven by the tasks of main.py.  The files *)
(* on disk survive from one process to the next; everything else is the    *)
(* memory of the running process.                                          *)
(***************************************************************************)
EXTENDS Integers, Sequences, FiniteSets, TLC

VARIABLES
    pc,                       \* position of the running task ("idle": no process)
    task,                     \* the task main() was started with
    run,                      \* number of processes (Scraper instances) started so far
    stop_requested,           \* Scraper.stop_requested (threading.Event)
    driver,                   \* DriverPool.driver: "none" | "live" | "dead"
    all_scraped_urls,         \* Scraper.all_scraped_urls
    page_num,                 \* scrape_menu_pages: page_num
    retry,                    \* scrape_menu_pages: number of fetches made for page_num
    consecutive_http_errors,  \* scrape_menu_pages local
    consecutive_empty_pages,  \* scrape_menu_pages local
    urls_file,                \* URLS_OUTPUT_PATH on disk
    csv_exists,               \* DETAILS_OUTPUT_PATH exists
    csv_disk,                 \* DETAILS_OUTPUT_PATH: the lines that reached the file
    csv_open,                 \* Scraper.details_csv_file is not None
    buf,                      \* lines written to details_csv_file and not yet flushed
    urls,                     \* process_listings_from_json: urls (the loaded list)
    urls_to_process,          \* process_listings_from_json: URLs not yet iterated
    cur,                      \* the URL of the current loop iteration
    attempt,                  \* scrape_with_retries: attempt
    result,                   \* process_listings_from_json: result
    did,                      \* history: the operations the last step performed
    slept,                    \* history: scrape_with_retries slept since the last attempt
    calls,                    \* history: extract_listing_details calls for cur
    http_run,                 \* history: length of the current run of fetches with status >= 400
    empty_run,                \* history: length of the current run of fetches with an empty body
    start_index,              \* history: property_url column of the CSV at start-up
    start_rows,               \* history: per URL, its complete rows in the CSV at start-up
    begun,                    \* history: URLs whose row this process handed to writerow
    returned,                 \* history: URLs whose save_details_to_csv call has returned
    write_err,                \* history: a sink write error has happened on the CSV
    csv_closed,               \* Scraper.details_csv_file is a file object that is closed
    stage,                    \* the run_* function main() is in: "urls", "details", "clean"
    exit_code,                \* exit status of the process (of the last one when idle)
    signals,                  \* history: exceptions that reached a handler of this stage
    tpc,                      \* per thread calling the sink: where it is, with which URL
    details_csv_lock,         \* Scraper.details_csv_lock: the thread holding it, or "free"
    sink_calls,               \* number of sink method calls made by the threads
    held,                     \* per worker: the session acquire() gave it (0: none)
    session,                  \* number of sessions _init_driver has started
    page,                     \* the listing page in the browser: what each locator finds
    data,                     \* extract_listing_details: data
    cell,                     \* the features cell of the row save_details_to_csv wrote
    parsed,                   \* the list read back from the features cell
    tstate,                   \* ScreenshotUploader: per URL, where its process_single task is
    shot_pages,               \* ScreenshotUploader: the URLs whose page is open
    failed_screenshots,       \* ScreenshotUploader.failed_screenshots
    failures_file,            \* the *_failures.csv file next to the image map
    image_map,                \* IMAGE_MAP_CSV_PATH on disk
    raw_csv,                  \* DataCleaner: the lines of DETAILS_OUTPUT_PATH it reads
    df                        \* DataCleaner.df

vars == <<pc, task, run, stop_requested, driver, all_scraped_urls, page_num, retry,
          consecutive_http_errors, consecutive_empty_pages, urls_file, csv_exists,
          csv_disk, csv_open, buf, urls, urls_to_process, cur, attempt, result,
          did, slept, calls, http_run, empty_run, start_index, start_rows, begun, returned,
          write_err, csv_closed, stage, exit_code, signals, tpc, details_csv_lock,
          sink_calls, held, session, page, data, cell, parsed, tstate, shot_pages,
          failed_screenshots, failures_file, image_map, raw_csv, df>>

proc_vars == <<stop_requested, driver>>
menu_vars == <<all_scraped_urls, page_num, retry, consecutive_http_errors,
               consecutive_empty_pages, http_run, empty_run>>
file_vars == <<csv_exists, csv_disk, csv_open, buf, csv_closed>>
loop_vars == <<urls, urls_to_process, cur, attempt, result, calls, start_index,
               start_rows>>
sink_hist == <<begun, returned, write_err>>
end_vars == <<stage, exit_code, signals>>
thread_vars == <<tpc, details_csv_lock, sink_calls, held, session>>
pure_vars == <<page, data, cell, parsed>>
task_vars == <<tstate, shot_pages, failed_screenshots, failures_file>>
table_vars == <<image_map, raw_csv, df>>
aux_vars == <<task_vars, table_vars>>

-----------------------------------------------------------------------------
(* Bounds of the model *)

\* The listing URLs the site can serve.
Urls == {"u1", "u2"}
\* Number of processes started one after the other.
MaxRuns == 3
\* Length of a hand-written URL list found in URLS_OUTPUT_PATH at the start.
MaxListLen == 2
\* config.TOTAL_PAGES is 466; the page loop is the same for any number of pages.
TOTAL_PAGES == 2

(* Program constants *)
MAX_RETRIES == 5
\* "if consecutive_http_errors >= 3" / "if consecutive_empty_pages >= 3"
EscalationThreshold == 3

NoUrl == "-"
\* A file that does not exist.
NoFile == [exists |-> FALSE, rows |-> <<>>]
\* The threads that may call into one Scraper.
Threads == {"t1", "t2"}
None == [property_url |-> "None"]

Range(s) == {s[i] : i \in 1..Len(s)}
SeqsUpTo(S, n) == UNION {[1..k -> S] : k \in 0..n}
\* list(a_set): the elements once each, in an order Python does not fix.
ListsOf(S) == {s \in [1..Cardinality(S) -> S] : Range(s) = S}

-----------------------------------------------------------------------------
(* The detail CSV as a sequence of lines *)

Hdr == [k |-> "hdr", url |-> NoUrl]
RowOf(u) == [k |-> "row", url |-> u]
\* A row cut short by a failed flush; hasurl: the cut is after the property_url field.
TornOf(u, hasurl) == [k |-> IF hasurl THEN "torn_u" ELSE "torn_n", url |-> u]
\* The rest of a torn row, still held by the buffered writer.
TailOf(u) == [k |-> "tail", url |-> u]
IsTorn(l) == l.k \in {"torn_u", "torn_n"}

\* The number of complete rows a file holds for URL u.
RowCount(d, u) == Cardinality({i \in 1..Len(d) : d[i] = RowOf(u)})

\* Bytes appended to a file: after a torn last line the next bytes continue that
\* line (they complete it when they are its own tail, else they are garbled into it).
AppendToDisk(d, ls) ==
    IF ls = <<>> THEN d
    ELSE IF d # <<>> /\ IsTorn(d[Len(d)])
         THEN IF Head(ls).k = "tail"
              THEN [d EXCEPT ![Len(d)] = RowOf(d[Len(d)].url)] \o Tail(ls)
              ELSE d \o Tail(ls)
         ELSE d \o ls

\* csv.DictReader over the file, keeping row["property_url"] of every row that has
\* one: the first line gives the field names whatever it holds.
ReadProcessedUrls(exists, d) ==
    IF ~exists \/ d = <<>> THEN {}
    ELSE IF Head(d).k = "hdr"
         THEN {IF d[i].k = "hdr" THEN "property_url" ELSE d[i].url :
                  i \in {j \in 2..Len(d) : d[j].k \in {"hdr", "row", "torn_u"}}}
         ELSE {}

\* urls_to_process = list(set(urls) - processed_urls)
FilterUrlsAll(us, processed) == Range(us)
FilterUrls(us, processed) == Range(us) \ processed

\* file.flush() on the buffered writer, as a map on (disk, buffer).
flush_noop(f) == f
flush(f) == [disk |-> AppendToDisk(f.disk, f.buf), buf |-> <<>>]

\* threading.Event
never_set(e) == FALSE
is_set(e) == e
Event_toggle(e) == ~e
Event_set(e) == TRUE

\* range(1, MAX_RETRIES + 1) is exhausted after this attempt
LastAttemptEarly(a) == a >= MAX_RETRIES - 1
LastAttemptNever(a) == FALSE
LastAttempt(a) == a >= MAX_RETRIES

\* DriverPool.close_all: quit the driver if there is one; a failing quit leaves it set.
close_all(d, quit_ok) == IF d = "none" THEN "none" ELSE IF quit_ok THEN "none" ELSE "dead"

-----------------------------------------------------------------------------
(* The page extractor: the field readers of extract_listing_details, and the  *)
(* serialization of the list fields by save_details_to_csv                    *)

\* Texts are sequences of characters.
Chars == {"a", ";", " "}
\* Length of the text of a page element.
MaxTextLen == 3

\* str.strip()
RECURSIVE lstrip(_)
lstrip(s) == IF s # <<>> /\ Head(s) = " " THEN lstrip(Tail(s)) ELSE s
RECURSIVE rstrip(_)
rstrip(s) == IF s # <<>> /\ s[Len(s)] = " " THEN rstrip(SubSeq(s, 1, Len(s) - 1)) ELSE s
strip(s) == rstrip(lstrip(s))

\* sep.join(l)
RECURSIVE join(_, _)
join(sep, l) ==
    IF l = <<>> THEN <<>>
    ELSE IF Len(l) = 1 THEN l[1]
    ELSE l[1] \o sep \o join(sep, Tail(l))

\* s.split(sep): cut at the leftmost occurrences of sep, which do not overlap.
RECURSIVE split(_, _)
split(s, sep) ==
    LET n == Len(sep)
        hits == {i \in 1..(Len(s) - n + 1) : SubSeq(s, i, i + n - 1) = sep}
    IN  IF hits = {} THEN <<s>>
        ELSE LET i == CHOOSE h \in hits : \A j \in hits : h <= j
             IN  <<SubSeq(s, 1, i - 1)>> \o split(SubSeq(s, i + n, Len(s)), sep)

\* The delimiter of the features cell: "; ".join(...).
FeaturesDelimiter == <<";", " ">>

\* A field of the record: Python None, or a text.
NoneValue == [some |-> FALSE, val |-> <<>>]
Some(v) == [some |-> TRUE, val |-> v]

\* What a locator finds on a page: nothing (found is FALSE: the lookup times out or
\* raises), or the element with its content.
TextValues == {[found |-> FALSE, text |-> <<>>], [found |-> TRUE, text |-> <<"a", " ">>]}
ImageValues ==
    {[found |-> FALSE, srcset |-> <<>>],
     [found |-> TRUE, srcset |-> <<>>],
     [found |-> TRUE, srcset |-> <<[url |-> <<"a">>, desc |-> <<"a">>],
                                   [url |-> <<";">>, desc |-> <<"a">>]>>]}
BreadcrumbValues ==
    {[found |-> FALSE, items |-> <<>>],
     [found |-> TRUE, items |-> <<[position |-> 2, name |-> <<"a">>]>>],
     [found |-> TRUE, items |-> <<[position |-> 1, name |-> <<";">>],
                                  [position |-> 2, name |-> <<"a">>],
                                  [position |-> 3, name |-> <<"a", "a">>]>>]}
FeatureValues ==
    {[found |-> FALSE, items |-> <<>>],
     [found |-> TRUE, items |-> <<[title |-> <<"a">>, text |-> <<"a">>]>>],
     [found |-> TRUE, items |-> <<[title |-> <<"a">>, text |-> <<>>],
                                  [title |-> <<"a">>, text |-> <<"a", ";">>]>>]}
DescriptionValues ==
    {[found |-> FALSE, text |-> <<>>, lis |-> [found |-> TRUE, items |-> <<<<"a">>>>]],
     [found |-> TRUE, text |-> <<"a">>, lis |-> [found |-> FALSE, items |-> <<>>]],
     [found |-> TRUE, text |-> <<>>, lis |-> [found |-> FALSE, items |-> <<>>]],
     [found |-> TRUE, text |-> <<>>, lis |-> [found |-> TRUE, items |-> <<<<"a">>, <<" ">>>>]]}

\* The locators of extract_listing_details and what each may find.
LocatorValues ==
    [detail_title |-> TextValues, property_id |-> TextValues,
     total_price |-> TextValues, unit_price |-> TextValues,
     alley_width |-> TextValues, image |-> ImageValues,
     breadcrumbs |-> BreadcrumbValues, features |-> FeatureValues,
     description |-> DescriptionValues]
Locators == DOMAIN LocatorValues

\* The pages a listing URL may show once its body is present.
Pages ==
    [detail_title : TextValues, property_id : TextValues, total_price : TextValues,
     unit_price : TextValues, alley_width : TextValues, image : ImageValues,
     breadcrumbs : BreadcrumbValues, features : FeatureValues,
     description : DescriptionValues]

\* No page has been loaded.
NoPage == [l \in Locators |-> [found |-> FALSE]]

\* safe_text(by, selector): the stripped text of the element, None when the wait
\* for it fails.
safe_text(e) == IF e.found THEN Some(strip(e.text)) ELSE NoneValue

\* "# Image URL": the first URL of imagesrcset, when the link element is there and
\* the attribute is not empty.
ReadImage(e) ==
    IF e.found /\ e.srcset # <<>> THEN Some(e.srcset[1].url) ELSE NoneValue

\* "# Breadcrumbs": one lookup of the ld+json scripts; the item at position 2 names
\* the city, the item at position 3 the district.
RECURSIVE ReadBreadcrumbItems(_, _)
ReadBreadcrumbItems(items, acc) ==
    IF items = <<>> THEN acc
    ELSE LET item == Head(items)
         IN  ReadBreadcrumbItems(Tail(items),
                 CASE item.position = 2 -> [acc EXCEPT !.city = Some(item.name)]
                   [] item.position = 3 -> [acc EXCEPT !.district = Some(item.name)]
                   [] OTHER -> acc)
ReadBreadcrumbs(e) ==
    IF e.found
    THEN ReadBreadcrumbItems(e.items, [city |-> NoneValue, district |-> NoneValue])
    ELSE [city |-> NoneValue, district |-> NoneValue]

\* "# Features": f"{title}: {text}" for every item with a title and a text.
RECURSIVE ReadFeatureItems(_)
ReadFeatureItems(items) ==
    IF items = <<>> THEN <<>>
    ELSE LET title == strip(Head(items).title)
             text == strip(Head(items).text)
         IN  (IF title # <<>> /\ text # <<>>
              THEN <<title \o <<":", " ">> \o text>>
              ELSE <<>>) \o ReadFeatureItems(Tail(items))
ReadFeatures(e) == IF e.found THEN ReadFeatureItems(e.items) ELSE <<>>

\* "# Description": the text of the description div; the list items when the div
\* is there without text; nothing when find_element does not find the div.
RECURSIVE StrippedNonEmpty(_)
StrippedNonEmpty(l) ==
    IF l = <<>> THEN <<>>
    ELSE (IF strip(Head(l)) # <<>> THEN <<strip(Head(l))>> ELSE <<>>)
             \o StrippedNonEmpty(Tail(l))
ReadDescription(e) ==
    IF ~e.found THEN <<>>
    ELSE IF e.text # <<>> THEN <<strip(e.text)>>
    ELSE IF e.lis.found THEN StrippedNonEmpty(e.lis.items)
    ELSE <<>>

\* extract_listing_details, from "data = {" to "return data", on page p of url.
extract_fields(p, url) ==
    [listing_title |-> safe_text(p.detail_title),
     property_id |-> safe_text(p.property_id),
     total_price |-> safe_text(p.total_price),
     unit_price |-> safe_text(p.unit_price),
     property_url |-> url,
     alley_width |-> safe_text(p.alley_width),
     image_url |-> ReadImage(p.image),
     city |-> ReadBreadcrumbs(p.breadcrumbs).city,
     district |-> ReadBreadcrumbs(p.breadcrumbs).district,
     features |-> ReadFeatures(p.features),
     property_description |-> ReadDescription(p.description)]

\* The locator each field of the record is read with (property_url has none).
LocatorOf ==
    [listing_title |-> "detail_title", property_id |-> "property_id",
     total_price |-> "total_price", unit_price |-> "unit_price",
     alley_width |-> "alley_width", image_url |-> "image",
     city |-> "breadcrumbs", district |-> "breadcrumbs",
     features |-> "features", property_description |-> "description"]
LocatorFields == DOMAIN LocatorOf

\* The absent value of a field: None, [] for the two lists.
Absent(F) == IF F \in {"features", "property_description"} THEN <<>> ELSE NoneValue

\* "if result:" of process_listings_from_json: None and the empty dict are false.
Truthy(r) == r # None /\ DOMAIN r # {}

-----------------------------------------------------------------------------
UrlsFiles == {[kind |-> "missing", list |-> <<>>], [kind |-> "invalid", list |-> <<>>]}
             \cup {[kind |-> "ok", list |-> s] : s \in SeqsUpTo(Urls, MaxListLen)}

Zero == [u \in Urls |-> 0]

\* No process is running; the data directory holds no detail CSV and whatever URL
\* list was put there.
Init ==
    /\ pc = "idle"
    /\ task = "none"
    /\ run = 0
    /\ stop_requested = FALSE
    /\ driver = "none"
    /\ all_scraped_urls = {}
    /\ page_num = 0
    /\ retry = 0
    /\ consecutive_http_errors = 0
    /\ consecutive_empty_pages = 0
    /\ urls_file \in UrlsFiles
    /\ csv_exists = FALSE
    /\ csv_disk = <<>>
    /\ csv_open = FALSE
    /\ buf = <<>>
    /\ urls = <<>>
    /\ urls_to_process = {}
    /\ cur = NoUrl
    /\ attempt = 0
    /\ result = None
    /\ did = {}
    /\ slept = FALSE
    /\ calls = 0
    /\ http_run = 0
    /\ empty_run = 0
    /\ start_index = {}
    /\ start_rows = Zero
    /\ begun = {}
    /\ returned = {}
    /\ write_err = FALSE
    /\ csv_closed = FALSE
    /\ stage = "none"
    /\ exit_code = 0
    /\ signals = {}
    /\ tpc = [t \in Threads |-> [at |-> "idle", url |-> NoUrl]]
    /\ details_csv_lock = "free"
    /\ sink_calls = 0
    /\ held = [t \in Threads |-> 0]
    /\ session = 0
    /\ page = NoPage
    /\ data = None
    /\ cell = <<>>
    /\ parsed = <<>>
    /\ tstate = [u \in Urls |-> "none"]
    /\ shot_pages = {}
    /\ failed_screenshots = <<>>
    /\ failures_file = NoFile
    /\ image_map = NoFile
    /\ raw_csv = NoFile
    /\ df = <<>>

\* Scraper(): DriverPool.__init__ starts the browser, the stop event is created
\* unset, no sink is open.
NewScraper ==
    /\ run' = run + 1
    /\ stop_requested' = FALSE
    /\ driver' = "live"
    /\ all_scraped_urls' = {}
    /\ page_num' = 0
    /\ retry' = 0
    /\ consecutive_http_errors' = 0
    /\ consecutive_empty_pages' = 0
    /\ csv_open' = FALSE
    /\ csv_closed' = FALSE
    /\ buf' = <<>>
    /\ urls' = <<>>
    /\ urls_to_process' = {}
    /\ cur' = NoUrl
    /\ attempt' = 0
    /\ result' = None
    /\ did' = {"construct", "init_driver"}
    /\ slept' = FALSE
    /\ calls' = 0
    /\ http_run' = 0
    /\ empty_run' = 0
    /\ start_index' = {}
    /\ start_rows' = [u \in Urls |-> RowCount(csv_disk, u)]
    /\ begun' = {}
    /\ returned' = {}
    /\ signals' = {}
    /\ UNCHANGED <<urls_file, csv_exists, csv_disk, write_err, thread_vars, pure_vars, aux_vars>>

\* The number of Scraper objects a task constructs.
ScrapersOf(t) == IF t = "full_pipeline" THEN 2 ELSE 1

\* main(): the chosen task begins with its first run_* function, which constructs
\* a Scraper.
StartTask(t) ==
    /\ pc = "idle"
    /\ run + ScrapersOf(t) <= MaxRuns
    /\ task' = t
    /\ stage' = IF t = "scrape_details" THEN "details" ELSE "urls"
    /\ pc' = IF t = "scrape_details" THEN "process" ELSE "menu_page"
    /\ exit_code' = 0
    /\ NewScraper

-----------------------------------------------------------------------------
(* Discovery: Scraper.scrape_menu_pages, run by main.run_scrape_urls *)

\* Top of the page loop: "for page_num in range(1, TOTAL_PAGES + 1)", the stop
\* check, and the per-page initialisation of both counters.
PageLoop ==
    /\ pc = "menu_page"
    /\ IF page_num >= TOTAL_PAGES \/ is_set(stop_requested)
       THEN /\ pc' = "menu_ret"
            /\ did' = {}
            /\ UNCHANGED <<page_num, retry, consecutive_http_errors,
                           consecutive_empty_pages>>
       ELSE /\ pc' = "menu_fetch"
            /\ page_num' = page_num + 1
            /\ consecutive_http_errors' = 0
            /\ consecutive_empty_pages' = 0
            /\ retry' = 0
            /\ did' = {"dispatch_page"}
    /\ UNCHANGED <<task, run, thread_vars, pure_vars, aux_vars, end_vars, proc_vars, all_scraped_urls, http_run, empty_run, urls_file,
                   file_vars, loop_vars, slept, sink_hist>>

\* Where the page loop goes once the retry loop of a page is left ("if
\* self.stop_requested.is_set(): break" after the for/else).
AfterRetries(stop) == IF is_set(stop) THEN "menu_ret" ELSE "menu_page"

\* One pass of "for retry in range(MAX_RETRIES)": the loop test, the stop check,
\* requests.get and what follows from its answer.
Fetch ==
    /\ pc = "menu_fetch"
    /\ IF retry >= MAX_RETRIES \/ is_set(stop_requested)
       THEN /\ pc' = AfterRetries(stop_requested)
            /\ did' = {}
            /\ UNCHANGED <<stop_requested, all_scraped_urls, retry, http_run, empty_run,
                           consecutive_http_errors, consecutive_empty_pages>>
       ELSE \E o \in {"ok", "http", "empty", "exc"}, links \in SUBSET Urls :
            /\ (o # "ok") => links = {}
            /\ http_run' = IF o = "http"
                           THEN (IF http_run < EscalationThreshold THEN http_run + 1
                                 ELSE http_run)
                           ELSE 0
            /\ empty_run' = IF o = "empty"
                            THEN (IF empty_run < EscalationThreshold THEN empty_run + 1
                                  ELSE empty_run)
                            ELSE 0
            /\ CASE o = "http" ->
                      /\ consecutive_http_errors' = consecutive_http_errors + 1
                      /\ IF consecutive_http_errors' >= EscalationThreshold
                         THEN /\ stop_requested' = Event_set(stop_requested)
                              /\ pc' = AfterRetries(stop_requested')
                              /\ did' = {"fetch_attempt", "fetch", "escalate"}
                              /\ UNCHANGED retry
                         ELSE /\ retry' = retry + 1
                              /\ pc' = "menu_fetch"
                              /\ did' = {"fetch_attempt", "fetch", "sleep"}
                              /\ UNCHANGED stop_requested
                      /\ UNCHANGED <<consecutive_empty_pages, all_scraped_urls>>
                 [] o = "empty" ->
                      /\ consecutive_empty_pages' = consecutive_empty_pages + 1
                      /\ IF consecutive_empty_pages' >= EscalationThreshold
                         THEN /\ stop_requested' = Event_set(stop_requested)
                              /\ pc' = AfterRetries(stop_requested')
                              /\ did' = {"fetch_attempt", "fetch", "escalate"}
                              /\ UNCHANGED retry
                         ELSE /\ retry' = retry + 1
                              /\ pc' = "menu_fetch"
                              /\ did' = {"fetch_attempt", "fetch", "sleep"}
                              /\ UNCHANGED stop_requested
                      /\ UNCHANGED <<consecutive_http_errors, all_scraped_urls>>
                 [] o = "exc" ->
                      /\ retry' = retry + 1
                      /\ pc' = "menu_fetch"
                      /\ did' = {"fetch_attempt", "fetch", "sleep"}
                      /\ UNCHANGED <<stop_requested, consecutive_http_errors,
                                     consecutive_empty_pages, all_scraped_urls>>
                 [] o = "ok" ->
                      /\ consecutive_http_errors' = 0
                      /\ consecutive_empty_pages' = 0
                      /\ all_scraped_urls' = all_scraped_urls \cup links
                      /\ pc' = AfterRetries(stop_requested)
                      /\ did' = {"fetch_attempt", "fetch"}
                      /\ UNCHANGED <<stop_requested, retry>>
    /\ UNCHANGED <<task, run, thread_vars, pure_vars, aux_vars, end_vars, driver, page_num, urls_file, file_vars, loop_vars,
                   slept, sink_hist>>

\* Scraper.save_urls: nothing for an empty set, else the whole list written anew.
save_urls_never(file, urls_to_save) == {file}
save_urls(file, urls_to_save) ==
    IF urls_to_save = {} THEN {file}
    ELSE {[kind |-> "ok", list |-> l] : l \in ListsOf(urls_to_save)}

\* run_scrape_urls: scrape_menu_pages returned; scraper.save_urls(urls).
MenuReturn ==
    /\ pc = "menu_ret"
    /\ urls_file' \in save_urls(urls_file, all_scraped_urls)
    /\ pc' = "main_fin"
    /\ did' = {"save_urls"}
    /\ UNCHANGED <<task, run, thread_vars, pure_vars, aux_vars, end_vars, proc_vars, menu_vars, file_vars, loop_vars, slept,
                   sink_hist>>

\* run_scrape_urls: KeyboardInterrupt during scrape_menu_pages;
\* scraper.save_urls(scraper.all_scraped_urls).
InterruptMenu ==
    /\ pc \in {"menu_page", "menu_fetch"}
    /\ urls_file' \in save_urls(urls_file, all_scraped_urls)
    /\ pc' = "main_fin"
    /\ did' = {"interrupt", "save_urls"}
    /\ signals' = signals \cup {"interrupt"}
    /\ UNCHANGED <<task, run, thread_vars, pure_vars, aux_vars, stage, exit_code, proc_vars, menu_vars, file_vars, loop_vars, slept,
                   sink_hist>>

\* run_scrape_urls: an exception other than KeyboardInterrupt leaves
\* scrape_menu_pages; scraper.save_urls(scraper.all_scraped_urls), sys.exit(1).
ErrorMenu ==
    /\ pc \in {"menu_page", "menu_fetch"}
    /\ urls_file' \in save_urls(urls_file, all_scraped_urls)
    /\ pc' = "main_fin"
    /\ did' = {"error", "save_urls"}
    /\ signals' = signals \cup {"error"}
    /\ exit_code' = 1
    /\ UNCHANGED <<task, run, thread_vars, pure_vars, aux_vars, stage, proc_vars, menu_vars, file_vars, loop_vars, slept,
                   sink_hist>>

-----------------------------------------------------------------------------
(* The sink *)

\* _initialize_details_csv: the header is written unless the file exists and
\* the file is opened for appending.
WritesHeaderAlways(exists, append) == TRUE
WritesHeader(exists, append) == ~(exists /\ append)

\* The sink of the Scraper: its handle and the file behind it.
Sink == [open |-> csv_open, closed |-> csv_closed, disk |-> csv_disk, buf |-> buf]

\* _close_details_csv: nothing without a handle; else details_csv_file.close(),
\* which flushes what is buffered, and the handle is dropped.  When that flush
\* fails close() raises once the file is closed: the handle is kept, the buffered
\* bytes are gone.  close() of a closed file does nothing.
close_details_csv(f, flush_ok) ==
    IF ~f.open
    THEN [sink |-> f, raised |-> FALSE]
    ELSE IF f.closed \/ f.buf = <<>> \/ flush_ok
         THEN [sink |-> [open |-> FALSE, closed |-> FALSE,
                         disk |-> IF f.closed THEN f.disk ELSE AppendToDisk(f.disk, f.buf),
                         buf |-> <<>>],
               raised |-> FALSE]
         ELSE [sink |-> [open |-> TRUE, closed |-> TRUE, disk |-> f.disk, buf |-> <<>>],
               raised |-> TRUE]

\* Scraper.shutdown: set the stop event, close_all, _close_details_csv.  An
\* exception of the latter leaves shutdown, and the finally clause it was called
\* from, for the "except Exception" of main.py or the top level: exit status 1.
Shutdown(next_pc) ==
    /\ stop_requested' = Event_set(stop_requested)
    /\ \E quit_ok \in BOOLEAN : driver' = close_all(driver, quit_ok)
    /\ \E flush_ok \in BOOLEAN :
          LET c == close_details_csv(Sink, flush_ok)
          IN  /\ csv_open' = c.sink.open
              /\ csv_closed' = c.sink.closed
              /\ csv_disk' = c.sink.disk
              /\ buf' = c.sink.buf
              /\ write_err' = (write_err \/ c.raised)
              /\ exit_code' = IF c.raised THEN 1 ELSE exit_code
              /\ signals' = IF c.raised THEN signals \cup {"close_error"} ELSE signals
    /\ pc' = next_pc
    /\ did' = {"shutdown"}
    /\ UNCHANGED <<task, run, thread_vars, pure_vars, aux_vars, stage, menu_vars, urls_file, csv_exists, slept, begun,
                   returned>>

\* "finally: self.shutdown()" of process_listings_from_json, which then returns:
\* its local variables are gone.
ProcShutdown ==
    /\ pc = "fin"
    /\ Shutdown("main_fin")
    /\ urls' = <<>>
    /\ urls_to_process' = {}
    /\ cur' = NoUrl
    /\ result' = None
    /\ attempt' = 0
    /\ calls' = 0
    /\ UNCHANGED <<start_index, start_rows>>

\* "finally: scraper.shutdown()" of run_scrape_urls and run_scrape_details.
MainShutdown == pc = "main_fin" /\ Shutdown("done") /\ UNCHANGED loop_vars

\* The memory of a process that has ended.
NoProcess ==
    /\ pc' = "idle"
    /\ driver' = "none"
    /\ all_scraped_urls' = {}
    /\ page_num' = 0
    /\ retry' = 0
    /\ consecutive_http_errors' = 0
    /\ consecutive_empty_pages' = 0
    /\ csv_open' = FALSE
    /\ csv_closed' = FALSE
    /\ buf' = <<>>
    /\ urls' = <<>>
    /\ urls_to_process' = {}
    /\ cur' = NoUrl
    /\ attempt' = 0
    /\ result' = None
    /\ slept' = FALSE
    /\ calls' = 0
    /\ http_run' = 0
    /\ empty_run' = 0
    /\ start_index' = {}
    /\ stage' = "none"
    /\ UNCHANGED <<task, run, thread_vars, pure_vars, aux_vars, stop_requested, urls_file, csv_exists, csv_disk, write_err>>

\* main() returns and the process ends.
ProcessExit ==
    /\ pc = "done"
    /\ (task = "full_pipeline" => stage = "clean" \/ exit_code # 0)
    /\ did' = {"exit"}
    /\ UNCHANGED <<exit_code, signals>>
    /\ start_rows' = Zero
    /\ begun' = {}
    /\ returned' = {}
    /\ NoProcess

\* The process is killed: its memory, with whatever the file buffer held, is gone.
HardAbort ==
    /\ pc \notin {"idle", "done"}
    /\ did' = {"abort"}
    /\ exit_code' = 1
    /\ signals' = {}
    /\ UNCHANGED <<start_rows, begun, returned>>
    /\ NoProcess

-----------------------------------------------------------------------------
(* Detail scraping: Scraper.process_listings_from_json, run by               *)
(* main.run_scrape_details                                                   *)

\* The URLs found in the property_url column of the rows of a CSV file.
PropertyUrlColumn(exists, d) ==
    IF exists /\ d # <<>> /\ Head(d).k = "hdr"
    THEN {d[i].url : i \in {j \in 2..Len(d) : d[j].k \in {"row", "torn_u"}}}
    ELSE {}

\* process_listings_from_json up to its loop: load the URL list, read the
\* processed URLs back from the CSV, open the sink for appending, filter.
BeginProcess ==
    /\ pc = "process"
    /\ IF urls_file.kind # "ok" \/ urls_file.list = <<>>
       THEN /\ pc' = "main_fin"
            /\ UNCHANGED <<file_vars, urls, urls_to_process, start_index, start_rows>>
       ELSE LET processed_urls == ReadProcessedUrls(csv_exists, csv_disk)
                todo == FilterUrls(urls_file.list, processed_urls)
            IN  /\ urls' = urls_file.list
                /\ start_index' = PropertyUrlColumn(csv_exists, csv_disk)
                /\ UNCHANGED start_rows
                /\ csv_exists' = TRUE
                /\ csv_open' = TRUE
                /\ csv_closed' = FALSE
                /\ buf' = IF WritesHeader(csv_exists, TRUE) THEN <<Hdr>> ELSE <<>>
                /\ urls_to_process' = todo
                /\ pc' = IF todo = {} THEN "main_fin" ELSE "loop"
                /\ UNCHANGED csv_disk
    /\ did' = {"begin"}
    /\ UNCHANGED <<task, run, thread_vars, pure_vars, aux_vars, end_vars, proc_vars, menu_vars, urls_file, cur, attempt, result,
                   calls, slept, sink_hist>>

\* Top of "for url in urls_to_process": the stop check, then scrape_with_retries
\* is entered for the next URL.
Dispatch ==
    /\ pc = "loop"
    /\ IF is_set(stop_requested) \/ urls_to_process = {}
       THEN /\ pc' = "fin"
            /\ did' = {}
            /\ UNCHANGED <<urls_to_process, cur, attempt, calls, slept>>
       ELSE \E u \in urls_to_process :
            /\ cur' = u
            /\ urls_to_process' = urls_to_process \ {u}
            /\ attempt' = 1
            /\ calls' = 0
            /\ slept' = FALSE
            /\ pc' = "attempt"
            /\ did' = {"dispatch"}
    /\ UNCHANGED <<task, run, thread_vars, pure_vars, aux_vars, end_vars, proc_vars, menu_vars, urls_file, file_vars, urls,
                   result, start_index, start_rows, sink_hist>>

\* What the browser can answer to one extraction attempt, given the pool's driver.
AttemptOutcomes(d) ==
    CASE d = "none" -> {"initfail", "ok", "timeout", "crash_quit", "crash_quitfail", "other"}
      [] d = "live" -> {"ok", "timeout", "crash_quit", "crash_quitfail", "other"}
      [] d = "dead" -> {"crash_quit", "crash_quitfail", "other"}

\* DriverPool.acquire: cancelled once the stop event is set; else the driver it
\* holds (live or not: its session_id is still set), else a new one from
\* _init_driver, which raises RuntimeError when the browser cannot be started.
acquire(stop, d, init_ok) ==
    IF is_set(stop) THEN [raised |-> "cancelled", driver |-> d, ops |-> {}]
    ELSE IF d # "none" THEN [raised |-> "no", driver |-> d, ops |-> {"acquire"}]
    ELSE IF init_ok
         THEN [raised |-> "no", driver |-> "live", ops |-> {"init_driver", "acquire"}]
         ELSE [raised |-> "init_failed", driver |-> "none", ops |-> {"init_driver"}]

\* extract_listing_details without its except clauses: a failure leaves it as an
\* exception.
extract_raises(stop, d, o) ==
    IF is_set(stop) THEN [ret |-> "None", driver |-> d, ops |-> {"extract"}]
    ELSE IF acquire(stop, d, o # "initfail").raised = "no" /\ o = "ok"
         THEN [ret |-> "data", driver |-> "live",
               ops |-> acquire(stop, d, TRUE).ops \cup {"extract", "nav"}]
         ELSE [ret |-> "raise", driver |-> acquire(stop, d, o # "initfail").driver,
               ops |-> acquire(stop, d, o # "initfail").ops \cup {"extract"}]

\* extract_listing_details(url) with the browser answering o: what it returns
\* ("data" or "None"; none of its handlers lets an exception out), the pool's
\* driver afterwards and the operations performed.  A WebDriverException makes it
\* quit the driver and drop it; when quit() fails too the driver stays in the pool.
extract_listing_details(stop, d, o) ==
    IF is_set(stop) THEN [ret |-> "None", driver |-> d, ops |-> {"extract"}]
    ELSE LET a == acquire(stop, d, o # "initfail")
             went == a.ops \cup {"extract", "nav"}
         IN  CASE a.raised # "no" ->
                    [ret |-> "None", driver |-> a.driver, ops |-> a.ops \cup {"extract"}]
               [] a.raised = "no" /\ o = "ok" ->
                    [ret |-> "data", driver |-> a.driver, ops |-> went]
               [] a.raised = "no" /\ o = "crash_quit" ->
                    [ret |-> "None", driver |-> "none", ops |-> went \cup {"crash"}]
               [] a.raised = "no" /\ o = "crash_quitfail" ->
                    [ret |-> "None", driver |-> "dead", ops |-> went \cup {"crash"}]
               [] OTHER ->
                    [ret |-> "None", driver |-> a.driver, ops |-> went]

\* One pass of "for attempt in range(1, MAX_RETRIES + 1)" of scrape_with_retries:
\* the stop check, extract_listing_details(url), and what follows from its
\* result.  time.sleep(RETRY_DELAY) is in the handler of an exception raised by
\* extract_listing_details.
Attempt ==
    /\ pc = "attempt"
    /\ IF is_set(stop_requested)
       THEN /\ result' = None
            /\ pc' = "loop"
            /\ did' = {}
            /\ UNCHANGED <<driver, attempt, calls, slept>>
       ELSE \E o \in AttemptOutcomes(driver) :
            LET r == extract_listing_details(stop_requested, driver, o)
                ops == r.ops \cup {"attempt"}
            IN  /\ calls' = calls + 1
                /\ driver' = r.driver
                /\ slept' = (r.ret = "raise" /\ ~LastAttempt(attempt)
                                /\ ~is_set(stop_requested))
                /\ IF r.ret = "data"
                   THEN /\ result' = [property_url |-> cur]
                        /\ pc' = "save"
                        /\ did' = ops
                        /\ UNCHANGED attempt
                   ELSE IF LastAttempt(attempt)
                        THEN /\ result' = None
                             /\ pc' = "loop"
                             /\ did' = ops \cup {"skip"}
                             /\ UNCHANGED attempt
                        ELSE /\ attempt' = attempt + 1
                             /\ pc' = "attempt"
                             /\ did' = ops
                             /\ UNCHANGED result
    /\ UNCHANGED <<task, run, thread_vars, pure_vars, aux_vars, end_vars, stop_requested, menu_vars, urls_file, file_vars, urls,
                   urls_to_process, cur, start_index, start_rows, sink_hist>>

\* save_details_to_csv, "except Exception as e: self.log(...)": the function
\* returns and the loop of process_listings_from_json goes on.
AfterWriteErrorAbort == "fin"
AfterWriteError == "loop"

\* save_details_to_csv, first half: details_csv_writer.writerow(filtered_listing).
\* An exception is logged and the function returns.
SaveWriterow ==
    /\ pc = "save"
    /\ LET u == result.property_url
       IN  IF ~csv_open
           THEN /\ pc' = "loop"
                /\ did' = {"writerow"}
                /\ UNCHANGED <<buf, sink_hist>>
           ELSE \E w \in {"ok", "raise"} :
                IF w = "ok"
                THEN /\ buf' = Append(buf, RowOf(u))
                     /\ begun' = begun \cup {u}
                     /\ pc' = "flush"
                     /\ did' = {"writerow"}
                     /\ UNCHANGED <<returned, write_err>>
                ELSE /\ write_err' = TRUE
                     /\ returned' = returned \cup {u}
                     /\ pc' = AfterWriteError
                     /\ did' = {"writerow", "write_error"}
                     /\ UNCHANGED <<buf, begun>>
    /\ UNCHANGED <<task, run, thread_vars, pure_vars, aux_vars, end_vars, proc_vars, menu_vars, urls_file, csv_exists, csv_disk,
                   csv_open, csv_closed, loop_vars, slept>>

\* save_details_to_csv, second half: details_csv_file.flush().  A failing flush
\* leaves the unwritten bytes in the buffer: all of them, or all but a first part
\* of the last row.
SaveFlush ==
    /\ pc = "flush"
    /\ LET u == result.property_url
       IN  /\ returned' = returned \cup {u}
           /\ \E f \in {"ok", "fail", "torn"}, hasurl \in BOOLEAN :
                CASE f = "ok" ->
                       /\ hasurl
                       /\ csv_disk' = flush([disk |-> csv_disk, buf |-> buf]).disk
                       /\ buf' = flush([disk |-> csv_disk, buf |-> buf]).buf
                       /\ pc' = "loop"
                       /\ did' = {"flush"}
                       /\ UNCHANGED write_err
                  [] f = "fail" ->
                       /\ hasurl
                       /\ write_err' = TRUE
                       /\ pc' = AfterWriteError
                       /\ did' = {"flush", "write_error"}
                       /\ UNCHANGED <<csv_disk, buf>>
                  [] f = "torn" ->
                       /\ write_err' = TRUE
                       /\ pc' = AfterWriteError
                       /\ did' = {"flush", "write_error"}
                       /\ csv_disk' = AppendToDisk(csv_disk,
                                         SubSeq(buf, 1, Len(buf) - 1) \o <<TornOf(u, hasurl)>>)
                       /\ buf' = <<TailOf(u)>>
    /\ UNCHANGED <<task, run, thread_vars, pure_vars, aux_vars, end_vars, proc_vars, menu_vars, urls_file, csv_exists, csv_open,
                   csv_closed, loop_vars, slept, begun>>

\* "except KeyboardInterrupt" of process_listings_from_json: the interrupt arrives
\* anywhere in the loop and unwinds scrape_with_retries; the stop event is set and
\* the finally clause follows.
InterruptDetails ==
    /\ pc \in {"loop", "attempt", "save", "flush"}
    /\ stop_requested' = Event_set(stop_requested)
    /\ pc' = "fin"
    /\ attempt' = 0
    /\ calls' = 0
    /\ slept' = FALSE
    /\ did' = {"interrupt"}
    /\ signals' = signals \cup {"interrupt"}
    /\ UNCHANGED <<task, run, thread_vars, pure_vars, aux_vars, stage, exit_code, driver, menu_vars, urls_file, file_vars, urls,
                   urls_to_process, cur, result, start_index, start_rows, sink_hist>>

\* "except Exception" of process_listings_from_json: an exception other than
\* KeyboardInterrupt is raised in the loop; it is logged, the stop event is set and
\* the finally clause follows.
ErrorDetails ==
    /\ pc \in {"loop", "attempt", "save", "flush"}
    /\ stop_requested' = Event_set(stop_requested)
    /\ pc' = "fin"
    /\ attempt' = 0
    /\ calls' = 0
    /\ slept' = FALSE
    /\ did' = {"error"}
    /\ signals' = signals \cup {"error"}
    /\ UNCHANGED <<task, run, thread_vars, pure_vars, aux_vars, stage, exit_code, driver, menu_vars, urls_file, file_vars,
                   urls, urls_to_process, cur, result, start_index, start_rows,
                   sink_hist>>

\* run_full_pipeline: run_scrape_urls() has returned; run_scrape_details() follows
\* and constructs its own Scraper.
StartDetailsStage ==
    /\ pc = "done"
    /\ task = "full_pipeline"
    /\ stage = "urls"
    /\ exit_code = 0
    /\ stage' = "details"
    /\ pc' = "process"
    /\ NewScraper
    /\ UNCHANGED <<task, exit_code>>

\* run_full_pipeline: run_scrape_details() has returned; run_clean_data() follows
\* (sys.exit(1) when the cleaning fails).
CleanData ==
    /\ pc = "done"
    /\ task = "full_pipeline"
    /\ stage = "details"
    /\ exit_code = 0
    /\ stage' = "clean"
    /\ \E ok \in BOOLEAN : exit_code' = IF ok THEN 0 ELSE 1
    /\ did' = {"clean"}
    /\ UNCHANGED <<pc, task, run, thread_vars, pure_vars, aux_vars, signals, proc_vars, menu_vars, urls_file, file_vars,
                   loop_vars, slept, sink_hist>>

-----------------------------------------------------------------------------
(* The sink under concurrent callers: threads calling _initialize_details_csv, *)
(* save_details_to_csv and _close_details_csv of one Scraper                   *)

\* Number of sink method calls the threads make.
MaxSinkCalls == 4

\* "with self.details_csv_lock": a thread gets in when nobody holds the lock.
Lock_always(l) == TRUE
Lock_acquire(l) == l = "free"

\* Everything but the sink and its threads.
sink_frame == <<pc, task, run, proc_vars, menu_vars, urls_file, loop_vars, did, slept,
                sink_hist, end_vars, held, session, pure_vars, aux_vars>>

At(t, a, u) == [tpc EXCEPT ![t] = [at |-> a, url |-> u]]

\* A thread calls one of the three methods.
SinkCall(t) ==
    /\ tpc[t].at = "idle"
    /\ sink_calls < MaxSinkCalls
    /\ sink_calls' = sink_calls + 1
    /\ \E m \in {"init_enter", "save_check", "close_enter"}, u \in Urls :
          tpc' = At(t, m, IF m = "save_check" THEN u ELSE NoUrl)
    /\ UNCHANGED <<file_vars, details_csv_lock, sink_frame>>

\* save_details_to_csv: "if self.details_csv_writer and listing", tested before the
\* lock is taken.
SinkSaveCheck(t) ==
    /\ tpc[t].at = "save_check"
    /\ tpc' = At(t, IF csv_open THEN "save_enter" ELSE "idle", tpc[t].url)
    /\ UNCHANGED <<file_vars, details_csv_lock, sink_calls, sink_frame>>

\* "with self.details_csv_lock:" of the three methods.
SinkEnter(t) ==
    /\ tpc[t].at \in {"init_enter", "save_enter", "close_enter"}
    /\ Lock_acquire(details_csv_lock)
    /\ details_csv_lock' = t
    /\ tpc' = At(t, CASE tpc[t].at = "init_enter" -> "init_open"
                      [] tpc[t].at = "save_enter" -> "save_writerow"
                      [] tpc[t].at = "close_enter" -> "close_body",
                 tpc[t].url)
    /\ UNCHANGED <<file_vars, sink_calls, sink_frame>>

\* _initialize_details_csv(output_csv, append=True) inside the lock: open and
\* writeheader.  A handle that was still set is dropped, which closes its file.
SinkInitOpen(t) ==
    /\ tpc[t].at = "init_open"
    /\ csv_exists' = TRUE
    /\ csv_disk' = close_details_csv(Sink, TRUE).sink.disk
    /\ csv_open' = TRUE
    /\ csv_closed' = FALSE
    /\ buf' = IF WritesHeader(csv_exists, TRUE) THEN <<Hdr>> ELSE <<>>
    /\ tpc' = At(t, "sink_exit", NoUrl)
    /\ UNCHANGED <<details_csv_lock, sink_calls, sink_frame>>

\* save_details_to_csv inside the lock: writerow.  Without a writer, or on a
\* closed file, it raises and the handler logs the error.
SinkWriterow(t) ==
    /\ tpc[t].at = "save_writerow"
    /\ IF csv_open /\ ~csv_closed
       THEN /\ buf' = Append(buf, RowOf(tpc[t].url))
            /\ tpc' = At(t, "save_flush", tpc[t].url)
       ELSE /\ tpc' = At(t, "sink_exit", NoUrl)
            /\ UNCHANGED buf
    /\ UNCHANGED <<csv_exists, csv_disk, csv_open, csv_closed, details_csv_lock,
                   sink_calls, sink_frame>>

\* save_details_to_csv inside the lock: flush.
SinkFlush(t) ==
    /\ tpc[t].at = "save_flush"
    /\ IF csv_open /\ ~csv_closed
       THEN /\ csv_disk' = flush([disk |-> csv_disk, buf |-> buf]).disk
            /\ buf' = flush([disk |-> csv_disk, buf |-> buf]).buf
       ELSE UNCHANGED <<csv_disk, buf>>
    /\ tpc' = At(t, "sink_exit", NoUrl)
    /\ UNCHANGED <<csv_exists, csv_open, csv_closed, details_csv_lock, sink_calls,
                   sink_frame>>

\* _close_details_csv inside the lock.
SinkClose(t) ==
    /\ tpc[t].at = "close_body"
    /\ \E flush_ok \in BOOLEAN :
          LET c == close_details_csv(Sink, flush_ok)
          IN  /\ csv_open' = c.sink.open
              /\ csv_closed' = c.sink.closed
              /\ csv_disk' = c.sink.disk
              /\ buf' = c.sink.buf
    /\ tpc' = At(t, "sink_exit", NoUrl)
    /\ UNCHANGED <<csv_exists, details_csv_lock, sink_calls, sink_frame>>

\* The end of the with block: the lock is released.
SinkExit(t) ==
    /\ tpc[t].at = "sink_exit"
    /\ details_csv_lock' = "free"
    /\ tpc' = At(t, "idle", NoUrl)
    /\ UNCHANGED <<file_vars, sink_calls, sink_frame>>

SinkStep(t) ==
    \/ SinkCall(t)
    \/ SinkSaveCheck(t)
    \/ SinkEnter(t)
    \/ SinkInitOpen(t)
    \/ SinkWriterow(t)
    \/ SinkFlush(t)
    \/ SinkClose(t)
    \/ SinkExit(t)

-----------------------------------------------------------------------------
(* The pool under concurrent workers: threads calling DriverPool.acquire and   *)
(* release around an extraction, as extract_listing_details does               *)

\* Number of browser sessions _init_driver starts.
MaxSessions == 3

\* Everything but the pool and its workers.
pool_frame == <<pc, task, run, menu_vars, urls_file, file_vars, loop_vars, did, slept,
                sink_hist, end_vars, tpc, details_csv_lock, sink_calls, pure_vars, aux_vars>>

\* DriverPool.__init__: self._init_driver().
PoolNew ==
    /\ session = 0
    /\ session' = 1
    /\ driver' = "live"
    /\ UNCHANGED <<stop_requested, held, pool_frame>>

\* A worker's "driver = self.driver_pool.acquire()": the pool's driver, or a new
\* one when the pool holds none.
WorkerAcquire(t) ==
    /\ session > 0
    /\ held[t] = 0
    /\ \E init_ok \in BOOLEAN :
          LET a == acquire(stop_requested, driver, init_ok)
          IN  /\ a.raised = "no"
              /\ ("init_driver" \in a.ops => session < MaxSessions)
              /\ driver' = a.driver
              /\ session' = IF "init_driver" \in a.ops THEN session + 1 ELSE session
              /\ held' = [held EXCEPT ![t] = session']
    /\ UNCHANGED <<stop_requested, pool_frame>>

\* The rest of the worker's extract_listing_details: the page answers o, a
\* WebDriverException makes the handler quit and drop the pool's driver, and the
\* finally clause calls release(driver), which does nothing.
WorkerFinish(t) ==
    /\ held[t] # 0
    /\ \E o \in AttemptOutcomes(driver) \ {"initfail"} :
          driver' = CASE o = "crash_quit" -> "none"
                      [] o = "crash_quitfail" -> (IF driver = "none" THEN "none" ELSE "dead")
                      [] OTHER -> driver
    /\ held' = [held EXCEPT ![t] = 0]
    /\ UNCHANGED <<stop_requested, session, pool_frame>>

\* Scraper.shutdown while workers run: the stop event, then close_all.
PoolShutdown ==
    /\ session > 0
    /\ ~stop_requested
    /\ stop_requested' = Event_set(stop_requested)
    /\ \E quit_ok \in BOOLEAN : driver' = close_all(driver, quit_ok)
    /\ UNCHANGED <<held, session, pool_frame>>

-----------------------------------------------------------------------------
(* Specifications *)

ProcessEnd == ProcShutdown \/ MainShutdown \/ ProcessExit \/ HardAbort

DiscoveryStep == PageLoop \/ Fetch \/ MenuReturn \/ InterruptMenu \/ ErrorMenu

DetailsStep ==
    \/ BeginProcess
    \/ Dispatch
    \/ Attempt
    \/ SaveWriterow
    \/ SaveFlush
    \/ InterruptDetails
    \/ ErrorDetails

-----------------------------------------------------------------------------
(* One listing through the extractor and the sink, field by field             *)

\* A page on which every locator finds its element.
FullPage ==
    [detail_title |-> [found |-> TRUE, text |-> <<"a", " ">>],
     property_id |-> [found |-> TRUE, text |-> <<"a", " ">>],
     total_price |-> [found |-> TRUE, text |-> <<"a", " ">>],
     unit_price |-> [found |-> TRUE, text |-> <<"a", " ">>],
     alley_width |-> [found |-> TRUE, text |-> <<"a", " ">>],
     image |-> [found |-> TRUE, srcset |-> <<[url |-> <<"a">>, desc |-> <<"a">>]>>],
     breadcrumbs |-> [found |-> TRUE, items |-> <<[position |-> 2, name |-> <<"a">>]>>],
     features |-> [found |-> TRUE, items |-> <<>>],
     description |-> [found |-> TRUE, text |-> <<"a">>,
                      lis |-> [found |-> FALSE, items |-> <<>>]]]

\* The texts of the feature items of a page (WebElement.text has no leading or
\* trailing blank).
ItemTexts == {s \in SeqsUpTo(Chars, MaxTextLen) : s # <<>> /\ strip(s) = s}

\* The pages with three feature items.
FeaturePages ==
    {[FullPage EXCEPT !.features =
          [found |-> TRUE,
           items |-> <<[title |-> <<"a">>, text |-> x], [title |-> <<"a">>, text |-> y],
                       [title |-> <<"a">>, text |-> z]>>]] :
        x \in ItemTexts, y \in ItemTexts, z \in ItemTexts}

\* Everything but the listing in hand.
fields_frame == <<task, run, proc_vars, menu_vars, urls_file, file_vars, urls,
                  urls_to_process, attempt, result, calls, start_index, start_rows,
                  slept, returned, write_err, end_vars, thread_vars, aux_vars>>

\* extract_listing_details: driver.get(url) and the wait for /html/body succeed on
\* one of the pages P.
LoadPage(P) ==
    /\ pc = "idle"
    /\ \E p \in P, u \in Urls :
          /\ page' = p
          /\ cur' = u
    /\ pc' = "fields"
    /\ did' = {"nav"}
    /\ UNCHANGED <<data, cell, parsed, begun, fields_frame>>

\* extract_listing_details: the field readers, up to "return data".
ExtractFields ==
    /\ pc = "fields"
    /\ data' = extract_fields(page, cur)
    /\ pc' = "persist"
    /\ did' = {"extract_fields"}
    /\ UNCHANGED <<page, cur, cell, parsed, begun, fields_frame>>

\* process_listings_from_json: "if result: self.save_details_to_csv(result)", the
\* writer being open: the row of the record is written, its features joined with
\* "; ".
PersistResult ==
    /\ pc = "persist"
    /\ IF Truthy(data)
       THEN /\ cell' = join(FeaturesDelimiter, data.features)
            /\ begun' = begun \cup {data.property_url}
            /\ did' = {"persist", "writerow"}
       ELSE /\ did' = {"persist"}
            /\ UNCHANGED <<cell, begun>>
    /\ pc' = "persisted"
    /\ UNCHANGED <<page, cur, data, parsed, fields_frame>>

\* A reader of the CSV splits the features cell on the delimiter.
ParseBack ==
    /\ pc = "persisted"
    /\ cur \in begun
    /\ parsed' = split(cell, FeaturesDelimiter)
    /\ pc' = "parsed"
    /\ did' = {"parse"}
    /\ UNCHANGED <<page, cur, data, cell, begun, fields_frame>>

-----------------------------------------------------------------------------
(* ScreenshotUploader.run: one process_single task per URL on the event loop  *)

\* ScreenshotUploader(concurrency=5): the value of the semaphore.
Concurrency == 5

\* The property id read from the page of a URL.
PropertyIdOf == [u \in Urls |-> IF u = "u1" THEN "p1" ELSE "p2"]

\* Everything but the uploader.
shots_frame == <<task, run, proc_vars, menu_vars, urls_file, file_vars, urls_to_process,
                 cur, attempt, result, calls, start_index, start_rows, slept, sink_hist,
                 end_vars, thread_vars, pure_vars, raw_csv, df>>

\* The tasks inside "async with self.semaphore".
InSemaphore == {u \in Urls : tstate[u] \in {"new_page", "shoot", "upload", "record",
                                            "close", "close_raise"}}

TaskAt(u, a) == [tstate EXCEPT ![u] = a]

\* run(urls), up to "await tqdm.gather(*tasks)": the browser is launched, the image
\* map is opened for writing, its header written, and one task is made per URL.
RunStart ==
    /\ pc = "idle"
    /\ \E S \in SUBSET Urls : urls' \in ListsOf(S)
    /\ image_map' = [exists |-> TRUE, rows |-> <<>>]
    /\ tstate' = [u \in Urls |-> IF u \in Range(urls') THEN "sem" ELSE "none"]
    /\ pc' = "gather"
    /\ did' = {"run"}
    /\ UNCHANGED <<shot_pages, failed_screenshots, failures_file, shots_frame>>

\* process_single: "async with self.semaphore".
TaskEnter(u) ==
    /\ pc = "gather"
    /\ tstate[u] = "sem"
    /\ Cardinality(InSemaphore) < Concurrency
    /\ tstate' = TaskAt(u, "new_page")
    /\ did' = {"enter"}
    /\ UNCHANGED <<pc, urls, shot_pages, failed_screenshots, failures_file, image_map,
                   shots_frame>>

\* process_single: "page = await browser.new_page()", before the try.
TaskNewPage(u) ==
    /\ pc = "gather"
    /\ tstate[u] = "new_page"
    /\ \E ok \in BOOLEAN :
          IF ok
          THEN /\ shot_pages' = shot_pages \cup {u}
               /\ tstate' = TaskAt(u, "shoot")
          ELSE /\ tstate' = TaskAt(u, "raised")
               /\ UNCHANGED shot_pages
    /\ did' = {"new_page"}
    /\ UNCHANGED <<pc, urls, failed_screenshots, failures_file, image_map, shots_frame>>

\* process_single: screenshot_and_extract_id, which gives (None, None) after
\* MAX_RETRIES failed attempts; the failure is then appended and the task returns
\* through its finally clause.
TaskShoot(u) ==
    /\ pc = "gather"
    /\ tstate[u] = "shoot"
    /\ \E ok \in BOOLEAN :
          IF ok
          THEN /\ tstate' = TaskAt(u, "upload")
               /\ UNCHANGED failed_screenshots
          ELSE /\ failed_screenshots' =
                      Append(failed_screenshots,
                             [url |-> u, property_id |-> "", reason |-> "screenshot_failed"])
               /\ tstate' = TaskAt(u, "close")
    /\ did' = {"shoot"}
    /\ UNCHANGED <<pc, urls, shot_pages, failures_file, image_map, shots_frame>>

\* process_single: "image_url = await self.upload_to_cloudinary(...)", then, without
\* another await, os.remove(screenshot_path) and either writer.writerow(...) or the
\* append of an upload failure.  os.remove and writerow may raise.
TaskUploadAndRecord(u) ==
    /\ pc = "gather"
    /\ tstate[u] = "upload"
    /\ \E image_url \in {"None", "s1"}, remove_ok \in BOOLEAN, write_ok \in BOOLEAN :
          IF ~remove_ok
          THEN /\ tstate' = TaskAt(u, "close_raise")
               /\ UNCHANGED <<image_map, failed_screenshots>>
          ELSE IF image_url # "None"
          THEN IF write_ok
               THEN /\ image_map' = [image_map EXCEPT !.rows =
                            Append(@, [property_id |-> PropertyIdOf[u],
                                       screenshot_url |-> image_url])]
                    /\ tstate' = TaskAt(u, "close")
                    /\ UNCHANGED failed_screenshots
               ELSE /\ tstate' = TaskAt(u, "close_raise")
                    /\ UNCHANGED <<image_map, failed_screenshots>>
          ELSE /\ failed_screenshots' =
                      Append(failed_screenshots,
                             [url |-> u, property_id |-> PropertyIdOf[u],
                              reason |-> "upload_failed"])
               /\ tstate' = TaskAt(u, "close")
               /\ UNCHANGED image_map
    /\ did' = {"upload"}
    /\ UNCHANGED <<pc, urls, shot_pages, failures_file, shots_frame>>

\* process_single: "finally: await page.close()"; the task then returns, or lets
\* its exception out.
TaskClose(u) ==
    /\ pc = "gather"
    /\ tstate[u] \in {"close", "close_raise"}
    /\ shot_pages' = shot_pages \ {u}
    /\ tstate' = TaskAt(u, IF tstate[u] = "close" THEN "done" ELSE "raised")
    /\ did' = {"close_page"}
    /\ UNCHANGED <<pc, urls, failed_screenshots, failures_file, image_map, shots_frame>>

\* run: every task has returned; the image map and the browser are closed and the
\* failures, if any, are written to the failures file.
GatherDone ==
    /\ pc = "gather"
    /\ \A u \in Range(urls) : tstate[u] = "done"
    /\ failures_file' = IF failed_screenshots # <<>>
                        THEN [exists |-> TRUE, rows |-> failed_screenshots]
                        ELSE failures_file
    /\ pc' = "shots_done"
    /\ did' = {"gather", "save_failures"}
    /\ UNCHANGED <<urls, tstate, shot_pages, failed_screenshots, image_map, shots_frame>>

\* run: gather lets the exception of a task out: the "with open" and the
\* "async with async_playwright()" blocks are left, which closes the image map and
\* ends the browser with its pages, and run ends with the exception.
GatherRaise ==
    /\ pc = "gather"
    /\ \E u \in Range(urls) : tstate[u] = "raised"
    /\ shot_pages' = {}
    /\ pc' = "shots_raised"
    /\ did' = {"gather", "raise"}
    /\ UNCHANGED <<urls, tstate, failed_screenshots, failures_file, image_map,
                   shots_frame>>

TaskStep(u) ==
    \/ TaskEnter(u)
    \/ TaskNewPage(u)
    \/ TaskShoot(u)
    \/ TaskUploadAndRecord(u)
    \/ TaskClose(u)

-----------------------------------------------------------------------------
(* DataCleaner.load_data: the raw detail CSV merged with the image map         *)

\* Number of lines after the first in the raw detail CSV.
MaxRawRows == 3
\* Number of rows in the image map.
MaxMapRows == 2

\* The property_id cell of a line: an id, or nothing ("nan" once read by pandas).
Ids == {"p1", "p2", "nan"}

\* The raw detail CSV, a line being given by its property_id cell: its first line is
\* the header or, in a file that got none, a data row.
RawCsvFiles ==
    {NoFile, [exists |-> TRUE, rows |-> <<>>]}
    \cup {[exists |-> TRUE, rows |-> <<first>> \o rest] :
             first \in Ids \cup {"hdr"}, rest \in SeqsUpTo(Ids, MaxRawRows)}

\* The image map: rows of property_id and screenshot_url under a header.
ImageMaps ==
    {NoFile}
    \cup {[exists |-> TRUE, rows |-> m] :
             m \in SeqsUpTo([property_id : {"p1", "p2"}, screenshot_url : {"s1", "s2"}],
                            MaxMapRows)}

\* pd.read_csv of the raw file: the first line gives the column names, every other
\* line a row (kept here with its line number).
read_csv(lines) ==
    [i \in 1..(Len(lines) - 1) |-> [line |-> i + 1, property_id |-> lines[i + 1]]]

\* pd.merge(df, image_map_df, how="left", on="property_id"): the rows of the left
\* table in their order, each once per matching row of the right table, or once
\* with no screenshot_url when none matches.
RECURSIVE merge(_, _)
merge(left, right) ==
    IF left = <<>> THEN <<>>
    ELSE LET r == Head(left)
             m == SelectSeq(right, LAMBDA x : x.property_id = r.property_id)
         IN  (IF m = <<>>
              THEN <<[line |-> r.line, property_id |-> r.property_id,
                      screenshot_url |-> "nan"]>>
              ELSE [i \in 1..Len(m) |->
                       [line |-> r.line, property_id |-> r.property_id,
                        screenshot_url |-> m[i].screenshot_url]])
             \o merge(Tail(left), right)

\* "if not merged_df.empty: merged_df = merged_df.iloc[:-1]"
iloc_but_last(t) == IF t = <<>> THEN t ELSE SubSeq(t, 1, Len(t) - 1)

\* drop_duplicates(subset=['property_id'], keep='first'); seen holds the
\* property_id values of the rows before t.
RECURSIVE drop_duplicates(_, _)
drop_duplicates(t, seen) ==
    IF t = <<>> THEN <<>>
    ELSE IF Head(t).property_id \in seen THEN drop_duplicates(Tail(t), seen)
    ELSE <<Head(t)>> \o drop_duplicates(Tail(t), seen \cup {Head(t).property_id})

\* load_data: FileNotFoundError without the raw file (and pandas raises on an empty
\* one); else self.df.
load_data(raw, map) ==
    IF ~raw.exists \/ raw.rows = <<>> THEN [raised |-> TRUE, df |-> <<>>]
    ELSE [raised |-> FALSE,
          df |-> drop_duplicates(
                     iloc_but_last(merge(read_csv(raw.rows),
                                         IF map.exists THEN map.rows ELSE <<>>)),
                     {})]

\* Everything but the cleaner.
clean_frame == <<task, run, proc_vars, menu_vars, urls_file, file_vars, loop_vars, slept,
                 sink_hist, end_vars, thread_vars, pure_vars, task_vars>>

\* The files the earlier stages left for the cleaning.
FilesLeft ==
    /\ pc = "idle"
    /\ raw_csv' \in RawCsvFiles
    /\ image_map' \in ImageMaps
    /\ pc' = "clean_load"
    /\ did' = {"files"}
    /\ UNCHANGED <<df, clean_frame>>

\* DataCleaner.load_data
LoadData ==
    /\ pc = "clean_load"
    /\ df' = load_data(raw_csv, image_map).df
    /\ pc' = IF load_data(raw_csv, image_map).raised THEN "clean_raised" ELSE "clean_loaded"
    /\ did' = {"load_data"}
    /\ UNCHANGED <<raw_csv, image_map, clean_frame>>

\* A fresh data directory: no URL list yet either.
InitFresh == Init /\ urls_file.kind = "missing"

\* Any sequence of scrape_urls and scrape_details processes.
Next ==
    \/ StartTask("scrape_urls")
    \/ StartTask("scrape_details")
    \/ DiscoveryStep
    \/ DetailsStep
    \/ ProcessEnd

Spec == InitFresh /\ [][Next]_vars

\* scrape_details processes only, over whatever URL list the file holds.
NextDetails == StartTask("scrape_details") \/ DetailsStep \/ ProcessEnd

SpecDetails == Init /\ [][NextDetails]_vars

\* scrape_urls processes only.
NextUrls ==
    \/ StartTask("scrape_urls")
    \/ DiscoveryStep
    \/ MainShutdown
    \/ ProcessExit
    \/ HardAbort

SpecUrls == InitFresh /\ [][NextUrls]_vars

\* full_pipeline processes: discovery, detail scraping and cleaning in one process.
NextPipeline ==
    \/ StartTask("full_pipeline")
    \/ DiscoveryStep
    \/ StartDetailsStage
    \/ DetailsStep
    \/ CleanData
    \/ ProcessEnd

SpecPipeline == InitFresh /\ [][NextPipeline]_vars

\* Threads calling the sink's methods of one Scraper in any interleaving.
NextSink == \E t \in Threads : SinkStep(t)

SpecSink == InitFresh /\ [][NextSink]_vars

\* Workers acquiring and releasing the pool's session in any interleaving.
NextPool ==
    \/ PoolNew
    \/ \E t \in Threads : WorkerAcquire(t) \/ WorkerFinish(t)
    \/ PoolShutdown

SpecPool == InitFresh /\ [][NextPool]_vars

\* One listing page, any combination of found and missing elements.
NextFields == LoadPage(Pages) \/ ExtractFields \/ PersistResult

SpecFields == InitFresh /\ [][NextFields]_vars

\* One listing page with three feature items, written and read back.
NextCsv == LoadPage(FeaturePages) \/ ExtractFields \/ PersistResult \/ ParseBack

SpecCsv == InitFresh /\ [][NextCsv]_vars

\* The steps the program takes by itself once each external call has returned;
\* starting a task, an interrupt, an unexpected exception and the killing of the
\* process are left to the environment.
ProgramStep ==
    \/ PageLoop
    \/ Fetch
    \/ MenuReturn
    \/ StartDetailsStage
    \/ BeginProcess
    \/ Dispatch
    \/ Attempt
    \/ SaveWriterow
    \/ SaveFlush
    \/ CleanData
    \/ ProcShutdown
    \/ MainShutdown
    \/ ProcessExit

\* One process of any task, or two scrape_details processes one after the other,
\* each step of which is eventually taken.
NextLive ==
    \/ (run = 0 /\ \E t \in {"scrape_urls", "full_pipeline"} : StartTask(t))
    \/ (run <= 1 /\ StartTask("scrape_details"))
    \/ DiscoveryStep
    \/ StartDetailsStage
    \/ DetailsStep
    \/ CleanData
    \/ ProcessEnd

SpecLive == Init /\ [][NextLive]_vars /\ WF_vars(ProgramStep)

\* One upload_screenshots run over any list of URLs.
NextShots == RunStart \/ (\E u \in Urls : TaskStep(u)) \/ GatherDone \/ GatherRaise

SpecShots == InitFresh /\ [][NextShots]_vars

\* The load step of the cleaning over any raw detail CSV and image map.
NextClean == FilesLeft \/ LoadData

SpecClean == InitFresh /\ [][NextClean]_vars

-----------------------------------------------------------------------------
(* Properties *)

NoTornRow == \A i \in 1..Len(csv_disk) : ~IsTorn(csv_disk[i])

\* The operations that start new work.
Work == {"dispatch_page", "fetch_attempt", "fetch", "dispatch", "attempt", "extract",
         "acquire", "init_driver", "nav"}

\* The states in which the sink history describes a process: one is running, or
\* the last one was killed.
SinkScope == pc # "idle" \/ did = {"abort"}

C2_OneRowPerUrl ==
    /\ \A u \in Urls : RowCount(csv_disk, u) <= 1
    /\ ("dispatch" \in did => start_rows[cur] = 0)

C4_HeaderExactlyOnce ==
    csv_disk # <<>> =>
        /\ Head(csv_disk) = Hdr
        /\ \A i \in 2..Len(csv_disk) : csv_disk[i] # Hdr

\* C5: the stop event of a Scraper is one-way.  Once set it stays set in every
\* later state of the same Scraper.
C5_StopOneWay == [][(stop_requested /\ run' = run) => stop_requested']_vars

\* Escalation set the stop event, save_urls and both shutdowns followed.
C5_Witness ==
    /\ pc = "done"
    /\ stop_requested
    /\ consecutive_http_errors >= EscalationThreshold

\* C6: once the stop event is set, no step of the same Scraper starts new work
\* (no page or URL dispatched, no fetch or retry attempt begun, no session
\* acquired or created, no navigation), and acquire would fail as cancelled.
C6_NoNewWorkAfterStop ==
    [][(stop_requested /\ run' = run) =>
          /\ did' \cap Work = {}
          /\ \A d \in {"none", "live", "dead"}, init_ok \in BOOLEAN :
                acquire(stop_requested', d, init_ok).raised = "cancelled"]_vars

\* Escalation set the stop event while pages were left to fetch; the page loop
\* was left and save_urls ran.
C6_Witness ==
    /\ "save_urls" \in did
    /\ stop_requested
    /\ page_num < TOTAL_PAGES

\* C7: retry bound.  scrape_with_retries gives a URL up only after exactly
\* MAX_RETRIES calls of extract_listing_details, returns None and no row is
\* written for it; while the attempts fail, every failed attempt so far was
\* followed by the next one.
C7_RetryBound ==
    /\ calls <= MAX_RETRIES
    /\ (pc = "attempt" => calls = attempt - 1 /\ attempt <= MAX_RETRIES)
    /\ ("skip" \in did =>
           /\ calls = MAX_RETRIES
           /\ result = None
           /\ pc = "loop"
           /\ cur \notin begun)

\* A URL was given up.
C7_Witness ==
    /\ "skip" \in did
    /\ ~stop_requested
    /\ calls = MAX_RETRIES

\* C8: retry backoff.  A second or later extraction attempt for a URL starts
\* only after a sleep of RETRY_DELAY since the attempt before it.
C8_SleepBetweenAttempts == (pc = "attempt" /\ attempt > 1) => slept

\* C9: discovery escalation.  Whenever the three most recent discovery fetches,
\* in request order, returned a status of 400 or more, the stop event is set.
C9_EscalationAfterThree == http_run >= EscalationThreshold => stop_requested

\* C10: the consecutive-failure counter is carried over from one page to the
\* next: starting the next page leaves it as it was.
C10_CounterCarriedOver ==
    [][(pc = "menu_page" /\ pc' = "menu_fetch") =>
          consecutive_http_errors' = consecutive_http_errors]_vars

\* C11: a user interrupt aborts the whole run.  In a full_pipeline process, once a
\* KeyboardInterrupt has arrived during the discovery stage, the URLs collected so
\* far are in the URL file and no step starts a later stage (detail scraping,
\* cleaning).
C11_InterruptAbortsRun ==
    [][(task = "full_pipeline" /\ stage = "urls" /\ "interrupt" \in signals) =>
          /\ (all_scraped_urls # {} =>
                 urls_file.kind = "ok" /\ Range(urls_file.list) = all_scraped_urls)
          /\ stage' \notin {"details", "clean"}]_vars

\* C12: exit status of the scrape_details task.  When its process has ended, the
\* status is a failure if an exception other than a user interrupt was raised in
\* the dispatch loop, and success if nothing but a user interrupt happened.
C12_ExitStatus ==
    (pc = "idle" /\ did = {"exit"} /\ task = "scrape_details") =>
        /\ ("error" \in signals => exit_code = 1)
        /\ (signals \subseteq {"interrupt"} => exit_code = 0)

\* C13: no exit path discards previously written output.  No step of a run takes
\* a complete row out of the detail CSV or a URL out of the discovery URL file:
\* what either file held when a run started it still holds when the run ends.
C13_NoDiscard ==
    [][/\ \A u \in Urls : RowCount(csv_disk', u) >= RowCount(csv_disk, u)
       /\ (urls_file.kind = "ok" =>
              /\ urls_file'.kind = "ok"
              /\ Range(urls_file.list) \subseteq Range(urls_file'.list))]_vars

\* C14 as claimed: once save_urls has run at the end of discovery (all pages
\* done, escalation, user interrupt, unexpected exception), the URL file holds
\* exactly the URLs collected in this run, each once.
C14_FileHoldsCollected ==
    "save_urls" \in did =>
        /\ urls_file.kind = "ok"
        /\ Range(urls_file.list) = all_scraped_urls
        /\ Len(urls_file.list) = Cardinality(all_scraped_urls)

\* C14 as amended: the same when at least one URL was collected; when none was,
\* save_urls leaves the file as it was.
C14_DiscoveryOutput ==
    [][("save_urls" \in did') =>
          IF all_scraped_urls' = {}
          THEN urls_file' = urls_file
          ELSE /\ urls_file'.kind = "ok"
               /\ Range(urls_file'.list) = all_scraped_urls'
               /\ Len(urls_file'.list) = Cardinality(all_scraped_urls')]_vars

\* An interrupted discovery saved the URLs of the pages fetched so far over the
\* list of an earlier run.
C14_Witness ==
    /\ did = {"interrupt", "save_urls"}
    /\ all_scraped_urls # {}
    /\ page_num < TOTAL_PAGES
    /\ run > 1

\* C15: the closed state releases everything.  When the scrape_details stage has
\* returned, on whatever path, the pool holds no driver and the sink's file is
\* closed.
C15_ClosedReleasesAll ==
    (pc = "done" /\ stage = "details") =>
        /\ driver = "none"
        /\ (~csv_open \/ csv_closed)

\* C16: closing the sink is idempotent.  In every state, _close_details_csv
\* called twice raises neither time, leaves no handle after the first call, and
\* the second call changes nothing (handle, writer, file contents).
C16_CloseIdempotent ==
    \A ok1 \in BOOLEAN, ok2 \in BOOLEAN :
        LET c1 == close_details_csv(Sink, ok1)
            c2 == close_details_csv(c1.sink, ok2)
        IN  /\ ~c1.raised
            /\ ~c2.raised
            /\ ~c1.sink.open
            /\ c2.sink = c1.sink

\* C17: close_all is idempotent and total.  After a shutdown, whose close_all has
\* returned, the pool holds no session and another close_all changes nothing,
\* whether quitting the session succeeds or fails.
C17_CloseAllTotal ==
    "shutdown" \in did =>
        /\ driver = "none"
        /\ \A quit_ok \in BOOLEAN : close_all(driver, quit_ok) = driver

\* The positions of a sink method inside "with self.details_csv_lock".
InSection(t) ==
    tpc[t].at \in {"init_open", "save_writerow", "save_flush", "close_body", "sink_exit"}

\* C18: single-writer sink.  In any interleaving of threads calling
\* save_details_to_csv, _initialize_details_csv and _close_details_csv, at most one
\* thread at a time is at the file handle, and a thread between its writerow and
\* its flush finds the handle open and its own row the last thing written: no
\* other thread wrote, opened or closed in between.
C18_SingleWriter ==
    /\ \A t1 \in Threads, t2 \in Threads :
          (t1 # t2 /\ InSection(t1)) => ~InSection(t2)
    /\ \A t \in Threads :
          /\ (InSection(t) => details_csv_lock = t)
          /\ (tpc[t].at = "save_flush" =>
                 /\ csv_open
                 /\ ~csv_closed
                 /\ buf # <<>>
                 /\ buf[Len(buf)] = RowOf(tpc[t].url))

\* One thread is between writerow and flush while another waits to close.
C18_Witness ==
    \E t1 \in Threads, t2 \in Threads :
        /\ tpc[t1].at = "save_flush"
        /\ tpc[t2].at = "close_enter"

\* C19: session exclusivity.  In any interleaving of acquire and release calls, no
\* two workers hold the same session at the same time.
C19_SessionExclusive ==
    \A t1 \in Threads, t2 \in Threads :
        (t1 # t2 /\ held[t1] # 0) => held[t1] # held[t2]

\* C20: crash recovery.  An extraction attempt that hit a session crash returned
\* None without raising and the run goes on; and as long as the stop event is not
\* set, the session acquire returns is a live one, newly created if the pool's
\* session had crashed: a crashed session is never handed out, whether quitting
\* it succeeded or failed.
C20_CrashRecovery ==
    /\ ("crash" \in did =>
           /\ pc \in {"attempt", "loop"}
           /\ "error" \notin signals
           /\ exit_code = 0)
    /\ (~is_set(stop_requested) =>
           \A init_ok \in BOOLEAN :
              LET a == acquire(stop_requested, driver, init_ok)
              IN  a.raised = "no" =>
                     /\ a.driver = "live"
                     /\ (driver # "live" => "init_driver" \in a.ops))

\* C21: constant pool size.  In every state between the pool's initialization and
\* close_all, the states between a crashed attempt and the next acquire included,
\* the pool owns one live session.
C21_ConstantPoolSize ==
    pc \in {"process", "loop", "attempt", "save", "flush"} => driver = "live"

\* C22: a sink write error affects one record only.  The step in which writerow
\* or flush fails for a record returns to the dispatch loop without an exception:
\* the stop event is not set, no handler is reached, no complete row that was in
\* the file is changed, and the URLs left to process are still to be dispatched.
C22_WriteErrorOneRecord ==
    [][("write_error" \in did') =>
          /\ pc' = "loop"
          /\ ~stop_requested'
          /\ signals' = signals
          /\ exit_code' = exit_code
          /\ urls_to_process' = urls_to_process
          /\ Len(csv_disk') >= Len(csv_disk)
          /\ \A i \in 1..Len(csv_disk) :
                ~IsTorn(csv_disk[i]) => csv_disk'[i] = csv_disk[i]]_vars

\* A write failed for a record after another record's row had reached the file.
C22_Witness ==
    /\ "write_error" \in did
    /\ returned # {}
    /\ \E u \in Urls : RowCount(csv_disk, u) >= 1 /\ u # cur

\* C23: failure containment.  Whatever the browser answers (timeout or missing
\* element, crashed session, failed session creation, cancelled acquire, any other
\* error), extract_listing_details returns a record or None and raises nothing;
\* the attempt that got None is followed by another attempt or by the skip of the
\* URL, with no handler of the run reached and the exit status untouched.
C23_FailureContainment ==
    /\ \A stop \in BOOLEAN, d \in {"none", "live", "dead"} :
          \A o \in AttemptOutcomes(d) :
              extract_listing_details(stop, d, o).ret \in {"data", "None"}
    /\ ("attempt" \in did) =>
          /\ pc \in {"attempt", "save", "loop"}
          /\ ~slept
          /\ "error" \notin signals
          /\ exit_code = 0
          /\ (pc = "save") => (result = [property_url |-> cur])
          /\ (pc = "loop") = ("skip" \in did)

\* A later attempt of a URL failed with a crashed session and the URL is tried
\* again.
C23_Witness ==
    /\ "crash" \in did
    /\ "attempt" \in did
    /\ pc = "attempt"
    /\ attempt > 1

\* C24: independence of field extraction.  After the field readers have run on a
\* page, for every field F whose locator found nothing: F holds its absent value,
\* the record is returned, and every other field holds the value it has in the
\* extraction of the same page with F's locator finding its element.
C24_FieldIndependence ==
    ("extract_fields" \in did) =>
        \A F \in LocatorFields :
            ~page[LocatorOf[F]].found =>
                /\ data # None
                /\ data[F] = Absent(F)
                /\ \A v \in {w \in LocatorValues[LocatorOf[F]] : w.found} :
                      \A G \in (DOMAIN data) \ {F} :
                          data[G] = extract_fields([page EXCEPT ![LocatorOf[F]] = v], cur)[G]

\* C27: only non-empty results are persisted.  When every locator-based field of
\* the extracted record is absent, process_listings_from_json writes no row for
\* its URL.
C27_EmptyResultNotPersisted ==
    (pc = "persisted" /\ \A F \in LocatorFields : data[F] = Absent(F)) =>
        /\ "writerow" \notin did
        /\ cur \notin begun

\* C26: CSV round trip of the features.  When a record with three features has
\* been written and its features cell split on "; ", the result is the list of
\* the three features, in order.
C26_FeaturesRoundTrip ==
    (pc = "parsed" /\ Len(data.features) = 3) => parsed = data.features

\* process_listings_from_json is about to filter a URL list all of whose URLs are
\* in the property_url column read back from the CSV.
NoOpBegin ==
    /\ pc = "process"
    /\ urls_file.kind = "ok"
    /\ urls_file.list # <<>>
    /\ Range(urls_file.list) \subseteq ReadProcessedUrls(csv_exists, csv_disk)

\* process_listings_from_json has returned from "All listings already scraped".
NoOpEnding ==
    /\ pc \in {"main_fin", "done"}
    /\ urls # <<>>
    /\ urls_to_process = {}
    /\ cur = NoUrl

\* C25: filtering no-op.  When every URL of the input list is in the processed-URL
\* index, every step of the run from the filtering to the exit of the process
\* leaves the contents of the CSV unchanged and neither dispatches a URL, nor
\* acquires or starts a session, nor navigates; the filtering goes straight to the
\* end of the run.
C25_FilteringNoOp ==
    [][(NoOpBegin \/ NoOpEnding) =>
          /\ csv_disk' = csv_disk
          /\ did' \cap Work = {}
          /\ (NoOpBegin => pc' \in {"main_fin", "idle"})
          /\ (NoOpBegin /\ pc' = "main_fin" => NoOpEnding')
          /\ pc' \in {"main_fin", "done", "idle"}]_vars

\* A run over a list of URLs that all have a row has ended without work.
C25_Witness ==
    /\ NoOpEnding
    /\ pc = "done"
    /\ \A i \in 1..Len(urls) : RowCount(csv_disk, urls[i]) >= 1
    /\ driver = "none"

\* C28: a skipped URL is not marked processed.  A URL whose last attempt has just
\* failed has no row in the file; and when the run is over, every URL of the list
\* that was left to this run and for which the run handed no row to the writer
\* (skipped, or not reached because of the stop) has no row in the file and is in
\* the set a next run over the same list dispatches.
C28_SkippedNotProcessed ==
    /\ ("skip" \in did) => RowCount(csv_disk, cur) = 0
    /\ (pc = "done" /\ stage = "details" /\ urls # <<>>) =>
          \A u \in Range(urls) \ (start_index \cup begun) :
              /\ RowCount(csv_disk, u) = 0
              /\ u \in FilterUrls(urls, ReadProcessedUrls(csv_exists, csv_disk))

\* C29: index key consistency.  The record handed to the sink carries the URL that
\* was dispatched for it; every row of the file carries a URL of the input list;
\* and a URL with a row in the file is not in the set a run over the list
\* dispatches.
C29_IndexKeyConsistency ==
    /\ (pc \in {"save", "flush"}) => result.property_url = cur
    /\ \A i \in 1..Len(csv_disk) :
          csv_disk[i].k = "row" => csv_disk[i].url \in Range(urls_file.list)
    /\ \A u \in Urls :
          RowCount(csv_disk, u) >= 1 =>
              u \notin FilterUrls(urls_file.list,
                                  ReadProcessedUrls(csv_exists, csv_disk))

\* C30: bounded work and termination.  Every run that has started ends, each of
\* its steps being taken once the call it waits for has returned.  A detail run
\* dispatches a URL by taking it out of the URLs left, which never grow during the
\* run; extract_listing_details is called at most MAX_RETRIES times for a URL.
\* Discovery fetches a page only while fewer than MAX_RETRIES fetches were made for
\* it, each fetch being counted or the last for the page; page indexes are taken
\* one by one, increasing, up to TOTAL_PAGES.
C30_BoundedWorkAndTermination ==
    /\ [][/\ ("dispatch" \in did') =>
                /\ cur' \in urls_to_process
                /\ urls_to_process' = urls_to_process \ {cur'}
          /\ (pc \in {"loop", "attempt", "save", "flush"}) =>
                urls_to_process' \subseteq urls_to_process
          /\ calls' <= MAX_RETRIES
          /\ ("attempt" \in did') => calls' = calls + 1
          /\ ("fetch" \in did') =>
                /\ retry < MAX_RETRIES
                /\ (retry' = retry + 1 \/ pc' # "menu_fetch")
          /\ ("dispatch_page" \in did') =>
                /\ page_num' = page_num + 1
                /\ page_num' <= TOTAL_PAGES
                /\ retry' = 0
          /\ (pc \in {"menu_page", "menu_fetch"} /\ "dispatch_page" \notin did') =>
                (page_num' = page_num \/ pc' = "idle")]_vars
    /\ (pc # "idle") ~> (pc = "idle")

\* The loop of a second detail run has ended, with no interrupt and no error,
\* after its last URL took MAX_RETRIES attempts.
C30_Witness ==
    /\ pc = "fin"
    /\ stage = "details"
    /\ calls = MAX_RETRIES
    /\ urls # <<>>
    /\ urls_to_process = {}
    /\ signals = {}
    /\ run = 2

\* C31: escalation fires only on a run of consecutive failures.  A fetch sets the
\* stop event by the escalation rule only when it and the two fetches before it
\* each returned a status of 400 or more, or each returned an empty body.
C31_EscalationOnlyOnRun ==
    ("escalate" \in did) =>
        (http_run >= EscalationThreshold \/ empty_run >= EscalationThreshold)

\* C32: screenshot accounting.  When run has ended, with or without the exception
\* of a task, every input URL has either one row in the image map or one entry in
\* the failures file, not both and not neither, and no page is open.
C32_ScreenshotAccounting ==
    (pc \in {"shots_done", "shots_raised"}) =>
        /\ \A u \in Range(urls) :
              Cardinality({i \in 1..Len(image_map.rows) :
                              image_map.rows[i].property_id = PropertyIdOf[u]})
              + Cardinality({i \in 1..Len(failures_file.rows) :
                                failures_file.rows[i].url = u}) = 1
        /\ shot_pages = {}

\* The lines of the raw detail CSV that are data rows.
RawDataLines == {i \in 1..Len(raw_csv.rows) : raw_csv.rows[i] # "hdr"}

MapMatches(i) ==
    Cardinality({j \in 1..Len(image_map.rows) :
                    image_map.rows[j].property_id = raw_csv.rows[i]})

\* The lines that count: those after the first line, which is read as the header,
\* without the last one unless the image map holds several rows for its id.
LinesInScope ==
    {i \in 2..Len(raw_csv.rows) : i < Len(raw_csv.rows) \/ MapMatches(i) >= 2}

\* What load_data keeps: exactly one row for each property_id value (no id counting
\* as one value) that occurs in a line in scope, the first such line, the rows in
\* the order of the file.
LoadKeepsFirstInScope ==
    (pc = "clean_loaded") =>
        /\ {df[a].property_id : a \in 1..Len(df)} = {raw_csv.rows[i] : i \in LinesInScope}
        /\ \A a \in 1..Len(df), b \in 1..Len(df) :
              /\ df[a].property_id = df[b].property_id => a = b
              /\ a < b => df[a].line < df[b].line
        /\ \A a \in 1..Len(df) :
              /\ df[a].line \in LinesInScope
              /\ raw_csv.rows[df[a].line] = df[a].property_id
              /\ \A i \in LinesInScope :
                    raw_csv.rows[i] = df[a].property_id => df[a].line <= i

====
